---- MODULE Spec2Model ----
(***************************************************************************)
(* Model of streamlit_app.py: the portfolio analysis application.          *)
(*                                                                         *)
(* Numbers.  The program computes in binary floating point.  The model     *)
(* computes exactly, in fixed point:                                       *)
(*   - a percentage or a weight is an integer count of 1/Scale (0.0001);   *)
(*   - an asset-class return or risk is an integer count of hundredths;    *)
(*   - a weighted return or risk (profile value times weight) is therefore *)
(*     an integer count of 1/(100*Scale) (0.000001);                       *)
(*   - the Sharpe ratio is the pair <<numerator, denominator>>.            *)
(* The inputs of the model carry at most two decimals and are multiples of *)
(* 0.02, so that holding['percentage'] / 100 is exact and no reachable sum *)
(* lies exactly on a tolerance or rounding boundary (where the binary      *)
(* rounding of the operands, not the decimal value, decides the outcome).  *)
(*                                                                         *)
(* Text.  A Python string is the sequence of its characters, Chars("...")  *)
(* for a literal; the Python string methods used by the program are the    *)
(* operators of the first section.  Names that the program only compares   *)
(* (dictionary keys, the kind of a rendered element) are TLA+ strings.     *)
(***************************************************************************)
EXTENDS Integers, Sequences, FiniteSets, TLC

VARIABLES
    portfolio_input,   \* the text area's content (line 259)
    pasted,            \* whether the user began it by pasting the sample portfolio
    typed,             \* the lines the user typed after that, in order
    clicked,           \* whether this script run is a click of 'Analyze Portfolio'
    portfolio,         \* the handler's parsed portfolio (line 263), <<>> when not parsed;
                       \* under direct calls, the argument of analyze_portfolio
    analysis,          \* what analyze_portfolio did in this run (line 270) or call
    summarizer_out,    \* what the summarizer returned in this run (line 140)
    template_idx,      \* the template random.choice picked in this run (line 180)
    display,           \* what the run rendered after the input widgets, in order
    ticker,            \* argument of a direct call of map_ticker_to_asset_class
    seed,              \* the spelling that ticker was first given in
    classification     \* the result of the last direct call

vars == <<portfolio_input, pasted, typed, clicked, portfolio, analysis, summarizer_out,
          template_idx, display, ticker, seed, classification>>

appVars == <<portfolio_input, pasted, typed, clicked, portfolio, analysis, summarizer_out,
             template_idx, display>>

classifierVars == <<ticker, seed, classification>>

\* Bound of the model: the number of lines the user types.
MaxLines == 2

NotCalled == [outcome |-> "not called"]

(***************************************************************************)
(* Python string methods                                                   *)
(***************************************************************************)
\* The characters of a string literal.
Chars(literal) == [i \in 1..Len(literal) |-> SubSeq(literal, i, i)]

LowerLetters == Chars("abcdefghijklmnopqrstuvwxyz")

UpperLetters == Chars("ABCDEFGHIJKLMNOPQRSTUVWXYZ")

\* Position of character c in letters, 0 when absent.
IndexIn(c, letters) ==
    IF \E i \in 1..Len(letters) : letters[i] = c
    THEN CHOOSE i \in 1..Len(letters) : letters[i] = c
    ELSE 0

\* The upper-case letter of each lower-case letter.
ToUpper == [c \in {LowerLetters[i] : i \in 1..Len(LowerLetters)} |->
               UpperLetters[IndexIn(c, LowerLetters)]]

\* The lower-case letter of each upper-case letter.
ToLower == [c \in {UpperLetters[i] : i \in 1..Len(UpperLetters)} |->
               LowerLetters[IndexIn(c, UpperLetters)]]

UpperChar(c) == IF c \in DOMAIN ToUpper THEN ToUpper[c] ELSE c

LowerChar(c) == IF c \in DOMAIN ToLower THEN ToLower[c] ELSE c

\* str.upper(), character by character
Upper(s) == [i \in 1..Len(s) |-> UpperChar(s[i])]

\* str.lower(), character by character
Lower(s) == [i \in 1..Len(s) |-> LowerChar(s[i])]

\* phrase in text
Contains(text, phrase) ==
    \E i \in 1..(Len(text) - Len(phrase) + 1) :
        SubSeq(text, i, i + Len(phrase) - 1) = phrase

\* text.endswith(suffix)
EndsWith(text, suffix) ==
    /\ Len(text) >= Len(suffix)
    /\ SubSeq(text, Len(text) - Len(suffix) + 1, Len(text)) = suffix

IsSpace(c) == c \in {" ", "\t", "\n", "\r"}

RECURSIVE LStrip(_)
LStrip(s) == IF s # <<>> /\ IsSpace(s[1]) THEN LStrip(Tail(s)) ELSE s

RECURSIVE RStrip(_)
RStrip(s) ==
    IF s # <<>> /\ IsSpace(s[Len(s)]) THEN RStrip(SubSeq(s, 1, Len(s) - 1)) ELSE s

\* str.strip()
Strip(s) == RStrip(LStrip(s))

RECURSIVE SplitOn(_, _)
\* str.split(sep) for a one-character sep: the empty string splits into a
\* single empty piece.
SplitOn(s, sep) ==
    IF \E i \in 1..Len(s) : s[i] = sep
    THEN LET i == CHOOSE k \in 1..Len(s) :
                      /\ s[k] = sep
                      /\ \A j \in 1..(k - 1) : s[j] # sep
         IN <<SubSeq(s, 1, i - 1)>> \o SplitOn(SubSeq(s, i + 1, Len(s)), sep)
    ELSE <<s>>

RECURSIVE SplitWs(_)
\* str.split() with no argument: the maximal runs of non-whitespace.
SplitWs(s) ==
    LET t == LStrip(s) IN
    IF t = <<>> THEN <<>>
    ELSE LET n == IF \E i \in 1..Len(t) : IsSpace(t[i])
                  THEN (CHOOSE k \in 1..Len(t) :
                            /\ IsSpace(t[k])
                            /\ \A j \in 1..(k - 1) : ~IsSpace(t[j])) - 1
                  ELSE Len(t)
         IN <<SubSeq(t, 1, n)>> \o SplitWs(SubSeq(t, n + 1, Len(t)))

RECURSIVE Join(_, _)
\* sep.join(parts)
Join(parts, sep) ==
    IF Len(parts) = 0 THEN <<>>
    ELSE IF Len(parts) = 1 THEN parts[1]
    ELSE parts[1] \o sep \o Join(Tail(parts), sep)

(***************************************************************************)
(* Ticker classifier                                                       *)
(***************************************************************************)
map_ticker_to_asset_class_CaseSensitive(t) ==
    IF t \in {Chars("SPY"), Chars("IVV"), Chars("VOO")} THEN "US_LARGE_CAP"
    ELSE IF t \in {Chars("IJH"), Chars("VO")} THEN "US_MID_CAP"
    ELSE IF t \in {Chars("IJR"), Chars("VB")} THEN "US_SMALL_CAP"
    ELSE IF t \in {Chars("EFA"), Chars("VEA")} THEN "INTERNATIONAL_DEVELOPED"
    ELSE IF t \in {Chars("EEM"), Chars("VWO")} THEN "EMERGING_MARKETS"
    ELSE IF t \in {Chars("AGG"), Chars("BND")} THEN "US_AGGREGATE_BOND"
    ELSE IF t \in {Chars("HYG"), Chars("JNK")} THEN "HIGH_YIELD_BOND"
    ELSE IF t \in {Chars("BNDX"), Chars("IAGG")} THEN "INTERNATIONAL_BOND"
    ELSE IF t = Chars("CASH") THEN "CASH"
    ELSE "US_LARGE_CAP"

map_ticker_to_asset_class(t) ==
    LET u == Upper(t) IN
    IF u \in {Chars("SPY"), Chars("IVV"), Chars("VOO")} THEN "US_LARGE_CAP"
    ELSE IF u \in {Chars("IJH"), Chars("VO")} THEN "US_MID_CAP"
    ELSE IF u \in {Chars("IJR"), Chars("VB")} THEN "US_SMALL_CAP"
    ELSE IF u \in {Chars("EFA"), Chars("VEA")} THEN "INTERNATIONAL_DEVELOPED"
    ELSE IF u \in {Chars("EEM"), Chars("VWO")} THEN "EMERGING_MARKETS"
    ELSE IF u \in {Chars("AGG"), Chars("BND")} THEN "US_AGGREGATE_BOND"
    ELSE IF u \in {Chars("HYG"), Chars("JNK")} THEN "HIGH_YIELD_BOND"
    ELSE IF u \in {Chars("BNDX"), Chars("IAGG")} THEN "INTERNATIONAL_BOND"
    ELSE IF u = Chars("CASH") THEN "CASH"
    ELSE "US_LARGE_CAP"

(***************************************************************************)
(* Numbers                                                                 *)
(***************************************************************************)
\* Units per 1.0 of a percentage or weight.
Scale == 100 * 100

Abs(x) == IF x < 0 THEN -x ELSE x

Digits == Chars("0123456789")

IsDigits(s) == \A i \in 1..Len(s) : IndexIn(s[i], Digits) # 0

RECURSIVE DigitsToInt(_)
DigitsToInt(s) ==
    IF s = <<>> THEN 0
    ELSE DigitsToInt(SubSeq(s, 1, Len(s) - 1)) * 10 + (IndexIn(s[Len(s)], Digits) - 1)

\* float(token) for plain decimal notation: an optional sign, digits with at
\* most one point, at least one digit.  Anything else raises ValueError.  The
\* value is in units of 1/Scale; fraction digits beyond the fourth are beyond
\* the model's resolution (no input of the model has them).
DecimalValue(negative, whole, frac, points) ==
    IF points <= 1 /\ IsDigits(whole) /\ IsDigits(frac) /\ whole \o frac # <<>>
    THEN [ok |-> TRUE,
          value |-> (IF negative THEN -1 ELSE 1)
                    * (DigitsToInt(whole) * Scale
                       + DigitsToInt(SubSeq(frac \o Chars("0000"), 1, 4)))]
    ELSE [ok |-> FALSE, value |-> 0]

ParseUnsigned(negative, pieces) ==
    DecimalValue(negative, pieces[1], IF Len(pieces) >= 2 THEN pieces[2] ELSE <<>>,
                 Len(pieces) - 1)

ParseFloat(token) ==
    IF token # <<>> /\ token[1] \in {"+", "-"}
    THEN ParseUnsigned(token[1] = "-", SplitOn(Tail(token), "."))
    ELSE ParseUnsigned(FALSE, SplitOn(token, "."))

\* n / d rounded to the nearest integer, ties to even (d > 0, n >= 0).
RoundHalfEven(n, d) ==
    IF 2 * (n % d) > d \/ (2 * (n % d) = d /\ (n \div d) % 2 = 1)
    THEN (n \div d) + 1
    ELSE n \div d

RECURSIVE IntToDigits(_)
IntToDigits(n) ==
    IF n < 10 THEN <<Digits[n + 1]>>
    ELSE Append(IntToDigits(n \div 10), Digits[(n % 10) + 1])

Pow10(k) == IF k = 0 THEN 1 ELSE IF k = 1 THEN 10 ELSE 100

\* The numeral of q * 10^-k with k <= 2 decimals.
FormatQuotient(negative, q, k) ==
    (IF negative THEN <<"-">> ELSE <<>>)
    \o IntToDigits(q \div Pow10(k)) \o <<".">>
    \o (IF k = 2 /\ q % Pow10(k) < 10 THEN <<"0">> ELSE <<>>)
    \o IntToDigits(q % Pow10(k))

\* f"{x:.kf}" for x = n / d with d # 0 and k <= 2: a sign for a negative x
\* (also when it rounds to zero), the integer digits, a point, k digits.
FormatFixed(n, d, k) ==
    FormatQuotient((n < 0 /\ d > 0) \/ (n > 0 /\ d < 0),
                   RoundHalfEven(Abs(n) * Pow10(k), Abs(d)), k)

(***************************************************************************)
(* Asset classes                                                           *)
(***************************************************************************)
\* return and risk in hundredths.
ASSET_CLASSES ==
    [ac \in {"US_LARGE_CAP", "US_MID_CAP", "US_SMALL_CAP", "INTERNATIONAL_DEVELOPED",
             "EMERGING_MARKETS", "US_AGGREGATE_BOND", "HIGH_YIELD_BOND",
             "INTERNATIONAL_BOND", "CASH"} |->
       CASE ac = "US_LARGE_CAP" -> [return |-> 10, risk |-> 15, type |-> "Equity"]
         [] ac = "US_MID_CAP" -> [return |-> 12, risk |-> 18, type |-> "Equity"]
         [] ac = "US_SMALL_CAP" -> [return |-> 13, risk |-> 20, type |-> "Equity"]
         [] ac = "INTERNATIONAL_DEVELOPED" -> [return |-> 9, risk |-> 16, type |-> "Equity"]
         [] ac = "EMERGING_MARKETS" -> [return |-> 11, risk |-> 22, type |-> "Equity"]
         [] ac = "US_AGGREGATE_BOND" -> [return |-> 4, risk |-> 5, type |-> "Fixed Income"]
         [] ac = "HIGH_YIELD_BOND" -> [return |-> 6, risk |-> 10, type |-> "Fixed Income"]
         [] ac = "INTERNATIONAL_BOND" -> [return |-> 3, risk |-> 7, type |-> "Fixed Income"]
         [] ac = "CASH" -> [return |-> 1, risk |-> 1, type |-> "Cash"]]

\* The dictionary's iteration order.
AssetClassOrder ==
    <<"US_LARGE_CAP", "US_MID_CAP", "US_SMALL_CAP", "INTERNATIONAL_DEVELOPED",
      "EMERGING_MARKETS", "US_AGGREGATE_BOND", "HIGH_YIELD_BOND",
      "INTERNATIONAL_BOND", "CASH">>

RECURSIVE SumOver(_, _)
\* sum(f[x] for x in S)
SumOver(f, S) ==
    IF S = {} THEN 0
    ELSE LET x == CHOOSE y \in S : TRUE IN f[x] + SumOver(f, S \ {x})

(***************************************************************************)
(* analyze_portfolio                                                       *)
(***************************************************************************)
\* abs(total_weight - 1) > 0.0001
WeightsOffOne(total_weight) == Abs(total_weight - Scale) > Scale \div 10000

RiskLevel_NonStrict(equity_percentage) ==
    IF equity_percentage >= 70 * Scale THEN "aggressive"
    ELSE IF equity_percentage <= 30 * Scale THEN "conservative"
    ELSE "moderate"

\* lines 69-74
RiskLevel(equity_percentage) ==
    IF equity_percentage > 70 * Scale THEN "aggressive"
    ELSE IF equity_percentage < 30 * Scale THEN "conservative"
    ELSE "moderate"

HoldingStep_RiskAssigned(acc, holding) ==
    LET asset_class == map_ticker_to_asset_class(holding.ticker)
        weight == holding.percentage \div 100
    IN [total_weight |-> acc.total_weight + weight,
        weighted_return |->
            acc.weighted_return + ASSET_CLASSES[asset_class].return * weight,
        weighted_risk |-> ASSET_CLASSES[asset_class].risk * weight,
        asset_class_weights |->
            [acc.asset_class_weights EXCEPT ![asset_class] = @ + weight]]

\* One iteration of the loop of lines 49-55.
HoldingStep(acc, holding) ==
    LET asset_class == map_ticker_to_asset_class(holding.ticker)
        weight == holding.percentage \div 100
    IN [total_weight |-> acc.total_weight + weight,
        weighted_return |->
            acc.weighted_return + ASSET_CLASSES[asset_class].return * weight,
        weighted_risk |->
            acc.weighted_risk + ASSET_CLASSES[asset_class].risk * weight,
        asset_class_weights |->
            [acc.asset_class_weights EXCEPT ![asset_class] = @ + weight]]

RECURSIVE Accumulate(_, _)
\* The loop of lines 49-55 from the state acc over the holdings hs.
Accumulate(acc, hs) ==
    IF hs = <<>> THEN acc ELSE Accumulate(HoldingStep(acc, Head(hs)), Tail(hs))

\* portfolio_return - ASSET_CLASSES['CASH']['return'], in units of 1/(100*Scale)
SharpeNumerator(portfolio_return) ==
    portfolio_return - ASSET_CLASSES["CASH"].return * Scale

\* What analyze_portfolio does after its loop left the totals acc: raises
\* ValueError (line 58), raises ZeroDivisionError (line 76), or returns the
\* dictionary of lines 78-87.
AnalyzeTotals(acc) ==
    LET portfolio_return == acc.weighted_return
        portfolio_risk == acc.weighted_risk
        w == acc.asset_class_weights
        equity_percentage ==
            SumOver(w, {ac \in DOMAIN ASSET_CLASSES : ASSET_CLASSES[ac].type = "Equity"}) * 100
        fixed_income_percentage ==
            SumOver(w, {ac \in DOMAIN ASSET_CLASSES :
                            ASSET_CLASSES[ac].type = "Fixed Income"}) * 100
        cash_percentage == w["CASH"] * 100
    IN IF WeightsOffOne(acc.total_weight) THEN [outcome |-> "ValueError"]
       ELSE IF portfolio_risk = 0 THEN [outcome |-> "ZeroDivisionError"]
       ELSE [outcome |-> "returned",
             expected_return |-> portfolio_return,
             risk |-> portfolio_risk,
             sharpe_ratio |-> <<SharpeNumerator(portfolio_return), portfolio_risk>>,
             equity_percentage |-> equity_percentage,
             fixed_income_percentage |-> fixed_income_percentage,
             cash_percentage |-> cash_percentage,
             risk_level |-> RiskLevel(equity_percentage),
             asset_class_weights |-> w]

analyze_portfolio(p) ==
    AnalyzeTotals(Accumulate([total_weight |-> 0, weighted_return |-> 0,
                              weighted_risk |-> 0,
                              asset_class_weights |-> [ac \in DOMAIN ASSET_CLASSES |-> 0]],
                             p))

(***************************************************************************)
(* parse_portfolio_input                                                   *)
(***************************************************************************)
\* Lines 97-103 for a line of two parts or more: percentage is float(parts[1]),
\* rest is what the lines after it contribute.
ParseHolding(ticker_, percentage, rest) ==
    IF percentage.ok
    THEN [portfolio |-> <<[ticker |-> ticker_, percentage |-> percentage.value]>>
                        \o rest.portfolio,
          errors |-> rest.errors]
    ELSE [portfolio |-> rest.portfolio,
          errors |-> <<Chars("Invalid percentage for ticker ") \o ticker_>> \o rest.errors]

\* Lines 93-103 for one line, split into parts.
ParseLine(parts, rest) ==
    IF Len(parts) >= 2 THEN ParseHolding(parts[1], ParseFloat(parts[2]), rest) ELSE rest

RECURSIVE ParseLines(_)
\* The loop of lines 92-103 over lines: the holdings appended and the
\* st.error messages emitted, each in order.
ParseLines(lines) ==
    IF lines = <<>> THEN [portfolio |-> <<>>, errors |-> <<>>]
    ELSE ParseLine(SplitWs(Head(lines)), ParseLines(Tail(lines)))

parse_portfolio_input(input_text) == ParseLines(SplitOn(Strip(input_text), "\n"))

(***************************************************************************)
(* Summary generator                                                       *)
(***************************************************************************)
RECURSIVE UniqueLines(_, _)
\* The loop of lines 155-157: the lines not yet in unique_lines, in order.
UniqueLines(lines, unique_lines) ==
    IF lines = <<>> THEN unique_lines
    ELSE IF \E i \in 1..Len(unique_lines) : unique_lines[i] = Head(lines)
    THEN UniqueLines(Tail(lines), unique_lines)
    ELSE UniqueLines(Tail(lines), Append(unique_lines, Head(lines)))

\* lines 163-164
EnsureFullStop(cleaned_summary) ==
    IF EndsWith(cleaned_summary, <<".">>) THEN cleaned_summary
    ELSE cleaned_summary \o <<".">>

post_process_summary(summary) ==
    EnsureFullStop(Join(UniqueLines(SplitOn(summary, "\n"), <<>>), <<" ">>))

\* line 170, as written there
required_phrases ==
    <<"stocks", "bonds", "cash", "risk", "return", "Sharpe ratio", "financial advisor">>

\* all(phrase in lowered for phrase in required_phrases)
HasAllPhrases(lowered) ==
    \A i \in 1..Len(required_phrases) : Contains(lowered, Chars(required_phrases[i]))

is_summary_satisfactory(summary) == HasAllPhrases(Lower(summary))

\* The fallback templates of lines 174-178, each cut at its replacement fields.
TEMPLATES ==
    <<
      <<
        "This ",
        "{risk_level}",
        " portfolio consists of ",
        "{stocks}",
        "% stocks, ",
        "{bonds}",
        "% bonds, and ",
        "{cash}",
        "% cash. Stocks offer growth potential but can be volatile, bonds provide steady income with lower risk, and cash offers stability. The expected annual return is ",
        "{return_}",
        "%, with an estimated risk of ",
        "{risk}",
        "%. The Sharpe ratio of ",
        "{sharpe:.2f}",
        " indicates the portfolio's risk-adjusted performance. Remember, past performance doesn't guarantee future results. Consider consulting a financial advisor for personalized advice."
      >>,
      <<
        "Your investment portfolio has a ",
        "{risk_level}",
        " approach, with ",
        "{stocks}",
        "% in stocks for growth, ",
        "{bonds}",
        "% in bonds for stability, and ",
        "{cash}",
        "% in cash for security. It aims for an annual return of ",
        "{return_}",
        "%, with a risk level of ",
        "{risk}",
        "%. The Sharpe ratio (",
        "{sharpe:.2f}",
        ") suggests ",
        "{sharpe_description}",
        ". Always keep in mind that investments can go up or down, and it's wise to seek professional financial advice."
      >>,
      <<
        "This ",
        "{risk_level}",
        " portfolio balances ",
        "{stocks}",
        "% stocks, ",
        "{bonds}",
        "% bonds, and ",
        "{cash}",
        "% cash. Stocks can grow but fluctuate, bonds offer steadier returns, and cash provides a safety net. Aiming for a ",
        "{return_}",
        "% annual return with ",
        "{risk}",
        "% risk, it has a Sharpe ratio of ",
        "{sharpe:.2f}",
        ", indicating its efficiency. Remember, financial markets can be unpredictable, so consider talking to a financial advisor about your specific goals."
      >>
    >>

\* analysis['sharpe_ratio'] > 0.5
SharpeAboveHalf(sharpe_ratio) ==
    IF sharpe_ratio[2] > 0 THEN 2 * sharpe_ratio[1] > sharpe_ratio[2]
    ELSE 2 * sharpe_ratio[1] < sharpe_ratio[2]

\* The keyword arguments of template.format (lines 184-193).  A weighted
\* return or risk n stands for n / (100 * Scale), so n * 100 is n / Scale.
FormatField(field, a) ==
    CASE field = "{risk_level}" -> Chars(a.risk_level)
      [] field = "{stocks}" -> FormatFixed(a.equity_percentage, Scale, 1)
      [] field = "{bonds}" -> FormatFixed(a.fixed_income_percentage, Scale, 1)
      [] field = "{cash}" -> FormatFixed(a.cash_percentage, Scale, 1)
      [] field = "{return_}" -> FormatFixed(a.expected_return, Scale, 2)
      [] field = "{risk}" -> FormatFixed(a.risk, Scale, 2)
      [] field = "{sharpe:.2f}" -> FormatFixed(a.sharpe_ratio[1], a.sharpe_ratio[2], 2)
      [] field = "{sharpe_description}" ->
            IF SharpeAboveHalf(a.sharpe_ratio)
            THEN Chars("a good balance of return for the risk taken")
            ELSE Chars("room for improvement in balancing return and risk")
      [] OTHER -> Chars(field)

RECURSIVE FormatPieces(_, _)
FormatPieces(pieces, a) ==
    IF pieces = <<>> THEN <<>>
    ELSE FormatField(Head(pieces), a) \o FormatPieces(Tail(pieces), a)

\* generate_fallback_summary with random.choice returning templates[choice].
generate_fallback_summary(a, choice) == FormatPieces(TEMPLATES[choice], a)

\* lines 146-149
SummaryOrFallback(a, summary, choice) ==
    IF ~is_summary_satisfactory(summary)
    THEN generate_fallback_summary(a, choice)
    ELSE summary

\* generate_llm_summary with the summarizer returning summarizer_output for
\* the prompt of lines 114-137.
generate_llm_summary(a, summarizer_output, choice) ==
    SummaryOrFallback(a, post_process_summary(summarizer_output), choice)

RECURSIVE TitleWords(_, _)
\* ac.replace('_', ' ').title(): startOfWord says whether the next letter
\* opens a word.
TitleWords(ac, startOfWord) ==
    IF ac = <<>> THEN <<>>
    ELSE LET c == Head(ac) IN
         IF c = "_" THEN <<" ">> \o TitleWords(Tail(ac), TRUE)
         ELSE <<IF startOfWord THEN UpperChar(c) ELSE LowerChar(c)>>
              \o TitleWords(Tail(ac), FALSE)

RECURSIVE ClassBreakdown(_, _)
\* The loop of lines 219-221.
ClassBreakdown(classes, a) ==
    IF classes = <<>> THEN <<>>
    ELSE LET ac == Head(classes)
             weight == a.asset_class_weights[ac]
         IN (IF weight > 0
             THEN Chars("\n    - ") \o TitleWords(Chars(ac), TRUE) \o Chars(": ")
                  \o FormatFixed(weight * 100, Scale, 1) \o Chars("%")
             ELSE <<>>)
            \o ClassBreakdown(Tail(classes), a)

\* generate_summary: the text of lines 196-234 with its fixed explanatory
\* prose left out; every replacement field is kept, in order.
generate_summary(a) ==
    Chars("Your investment portfolio is structured with a ") \o Chars(a.risk_level)
    \o Chars(" approach.\n    - Stocks: ") \o FormatFixed(a.equity_percentage, Scale, 1)
    \o Chars("%\n    - Bonds: ") \o FormatFixed(a.fixed_income_percentage, Scale, 1)
    \o Chars("%\n    - Cash: ") \o FormatFixed(a.cash_percentage, Scale, 1)
    \o Chars("%\n    1. Expected Annual Return: ") \o FormatFixed(a.expected_return, Scale, 2)
    \o Chars("%\n    2. Estimated Annual Risk: ") \o FormatFixed(a.risk, Scale, 2)
    \o Chars("%\n    3. Sharpe Ratio: ")
    \o FormatFixed(a.sharpe_ratio[1], a.sharpe_ratio[2], 2)
    \o Chars("\n    Your portfolio is divided into these investment categories:")
    \o ClassBreakdown(AssetClassOrder, a)

(***************************************************************************)
(* The application                                                         *)
(***************************************************************************)
\* lines 250-253
sample_portfolio == Chars("SPY 30\nAGG 40\nEFA 20\nCASH 10")

\* Lines a user types into the text area.
InputLines ==
    {Chars("SPY 70"), Chars("BND 30"), Chars("VOO 30"), Chars("bnd 70"),
     Chars("agg -25"), Chars("CASH 125"), Chars("xyz  0.02"),
     Chars("SPY"), Chars("IJH 3%")}

\* Texts the summarizer returns.
SummarizerOutputs ==
    {Chars("Stocks, bonds and cash make up this portfolio. Risk and return are in balance. The Sharpe ratio is fair. Consult a financial advisor."),
     Chars("This portfolio holds stocks and bonds"),
     Chars("stocks, bonds, cash\nstocks, bonds, cash\nrisk and return, sharpe ratio, financial advisor")}

RECURSIVE SumPercentages(_)
\* sum(holding['percentage'] for holding in portfolio)
SumPercentages(hs) ==
    IF hs = <<>> THEN 0 ELSE Head(hs).percentage + SumPercentages(Tail(hs))

PercentagesOffHundred_Loose(total_percentage) ==
    Abs(total_percentage - 100 * Scale) > Scale

\* abs(total_percentage - 100) > 0.01
PercentagesOffHundred(total_percentage) ==
    Abs(total_percentage - 100 * Scale) > Scale \div 100

Error(text) == [kind |-> "error", text |-> text]

Subheader(text) == [kind |-> "subheader", text |-> text]

Markdown(text) == [kind |-> "markdown", text |-> text]

RECURSIVE Errors(_)
Errors(texts) ==
    IF texts = <<>> THEN <<>> ELSE <<Error(Head(texts))>> \o Errors(Tail(texts))

\* str(e) of the exception analyze_portfolio raised
ExceptionText(outcome) ==
    IF outcome = "ValueError" THEN Chars("Portfolio weights do not sum to 100%")
    ELSE Chars("float division by zero")

\* Lines 272-279: analyze_portfolio returned a.
ShowAnalysis(parsed, a, summarizer_output, choice) ==
    [portfolio |-> parsed.portfolio, analysis |-> a,
     summarizer_out |-> summarizer_output,
     template_idx |->
         IF is_summary_satisfactory(post_process_summary(summarizer_output))
         THEN 0 ELSE choice,
     display |-> Errors(parsed.errors) \o
         <<Subheader(Chars("AI-Generated Portfolio Summary")),
           Markdown(generate_llm_summary(a, summarizer_output, choice)),
           Subheader(Chars("Detailed Portfolio Analysis")),
           Markdown(generate_summary(a))>>]

\* Lines 269-282: the try statement, a being what analyze_portfolio did.
TryAnalysis(parsed, a, summarizer_output, choice) ==
    IF a.outcome # "returned"
    THEN [portfolio |-> parsed.portfolio, analysis |-> a,
          summarizer_out |-> <<>>, template_idx |-> 0,
          display |-> Errors(parsed.errors) \o
              <<Error(Chars("An error occurred during analysis: ")
                      \o ExceptionText(a.outcome))>>]
    ELSE ShowAnalysis(parsed, a, summarizer_output, choice)

\* Lines 264-282: parsed is what parse_portfolio_input returned and reported.
AnalyzeParsed(parsed, summarizer_output, choice) ==
    IF PercentagesOffHundred(SumPercentages(parsed.portfolio))
    THEN [portfolio |-> parsed.portfolio, analysis |-> NotCalled,
          summarizer_out |-> <<>>, template_idx |-> 0,
          display |-> Errors(parsed.errors) \o
              <<Error(Chars("Error: Your total portfolio percentage is ")
                      \o FormatFixed(SumPercentages(parsed.portfolio), Scale, 2)
                      \o Chars("%. It should add up to 100%."))>>]
    ELSE TryAnalysis(parsed, analyze_portfolio(parsed.portfolio), summarizer_output,
                     choice)

\* The handler of the 'Analyze Portfolio' button (lines 261-284) on the text
\* input_text, with the summarizer returning summarizer_output and
\* random.choice picking templates[choice] if they are called.
AnalyzeButton(input_text, summarizer_output, choice) ==
    IF input_text = <<>>
    THEN [portfolio |-> <<>>, analysis |-> NotCalled, summarizer_out |-> <<>>,
          template_idx |-> 0,
          display |->
              <<Error(Chars("Please enter your portfolio details before analyzing."))>>]
    ELSE AnalyzeParsed(parse_portfolio_input(input_text), summarizer_output, choice)

Init ==
    /\ portfolio_input = <<>>
    /\ pasted = FALSE
    /\ typed = <<>>
    /\ clicked = FALSE
    /\ portfolio = <<>>
    /\ analysis = NotCalled
    /\ summarizer_out = <<>>
    /\ template_idx = 0
    /\ display = <<>>
    /\ ticker = <<>>
    /\ seed = <<>>
    /\ classification = NotCalled

\* A script run without a click renders nothing below the input widgets.
RerunWithoutClick ==
    /\ clicked' = FALSE
    /\ portfolio' = <<>>
    /\ analysis' = NotCalled
    /\ summarizer_out' = <<>>
    /\ template_idx' = 0
    /\ display' = <<>>

\* The user copies the sample portfolio into the empty text area, as line 257
\* invites to.
PasteSample ==
    /\ portfolio_input = <<>>
    /\ portfolio_input' = sample_portfolio
    /\ pasted' = TRUE
    /\ typed' = <<>>
    /\ RerunWithoutClick
    /\ UNCHANGED classifierVars

\* The user adds a line to the text area (line 259).
TypeLine(line) ==
    /\ Len(typed) < MaxLines
    /\ portfolio_input' =
           IF portfolio_input = <<>> THEN line ELSE portfolio_input \o <<"\n">> \o line
    /\ typed' = Append(typed, line)
    /\ RerunWithoutClick
    /\ UNCHANGED pasted
    /\ UNCHANGED classifierVars

\* The user empties the text area.
ClearInput ==
    /\ portfolio_input # <<>>
    /\ portfolio_input' = <<>>
    /\ pasted' = FALSE
    /\ typed' = <<>>
    /\ RerunWithoutClick
    /\ UNCHANGED classifierVars

\* The script run of a click leaves what its handler did.
Render(run) ==
    /\ clicked' = TRUE
    /\ portfolio' = run.portfolio
    /\ analysis' = run.analysis
    /\ summarizer_out' = run.summarizer_out
    /\ template_idx' = run.template_idx
    /\ display' = run.display

\* The user clicks 'Analyze Portfolio' (line 261).
ClickAnalyze(summarizer_output, choice) ==
    /\ Render(AnalyzeButton(portfolio_input, summarizer_output, choice))
    /\ UNCHANGED <<portfolio_input, pasted, typed>>
    /\ UNCHANGED classifierVars

Next ==
    \/ PasteSample
    \/ \E line \in InputLines : TypeLine(line)
    \/ ClearInput
    \/ \E summarizer_output \in SummarizerOutputs, choice \in 1..Len(TEMPLATES) :
           ClickAnalyze(summarizer_output, choice)

Spec == Init /\ [][Next]_vars

(***************************************************************************)
(* Direct calls of the classifier                                          *)
(***************************************************************************)
\* The tickers of lines 22-38 and some that are not among them.
TickerSeeds ==
    {Chars(t) : t \in
        {"SPY", "IVV", "VOO", "IJH", "VO", "IJR", "VB", "EFA", "VEA", "EEM", "VWO",
         "AGG", "BND", "HYG", "JNK", "BNDX", "IAGG", "CASH",
         "XYZ", "QQQ", "SP", "SPYX", "CASHX", "AG", "V", "BND1"}}

InitClassify ==
    /\ portfolio_input = <<>>
    /\ pasted = FALSE
    /\ typed = <<>>
    /\ clicked = FALSE
    /\ portfolio = <<>>
    /\ analysis = NotCalled
    /\ summarizer_out = <<>>
    /\ template_idx = 0
    /\ display = <<>>
    /\ ticker \in TickerSeeds
    /\ seed = ticker
    /\ classification = NotCalled

SwapCaseChar(c) == IF LowerChar(c) = c THEN UpperChar(c) ELSE LowerChar(c)

\* The caller respells the ticker with the case of letter i changed.
SwapCase(i) ==
    /\ SwapCaseChar(ticker[i]) # ticker[i]
    /\ ticker' = [ticker EXCEPT ![i] = SwapCaseChar(@)]
    /\ UNCHANGED <<seed, classification>>
    /\ UNCHANGED appVars

\* A call map_ticker_to_asset_class(ticker).
Classify ==
    /\ classification' = [outcome |-> "returned", ticker |-> ticker,
                          asset_class |-> map_ticker_to_asset_class(ticker)]
    /\ UNCHANGED <<ticker, seed>>
    /\ UNCHANGED appVars

NextClassify ==
    \/ \E i \in DOMAIN ticker : SwapCase(i)
    \/ Classify

SpecClassify == InitClassify /\ [][NextClassify]_vars

(***************************************************************************)
(* Direct calls of analyze_portfolio                                       *)
(***************************************************************************)
\* Bound of the model: the number of holdings of a portfolio passed directly.
MaxHoldings == 4

Holding(t, p) == [ticker |-> Chars(t), percentage |-> p * Scale]

\* Holdings a caller passes: those of the sample portfolio, a lower-case and
\* an unknown ticker, an empty position, a short position and a leveraged one.
Holdings ==
    {Holding("SPY", 30), Holding("AGG", 40), Holding("EFA", 20), Holding("CASH", 10),
     Holding("bnd", 30), Holding("XYZ", 50), Holding("XYZ", 0),
     Holding("agg", -25), Holding("CASH", 125)}

InitAnalyze ==
    /\ portfolio_input = <<>>
    /\ pasted = FALSE
    /\ typed = <<>>
    /\ clicked = FALSE
    /\ portfolio = <<>>
    /\ analysis = NotCalled
    /\ summarizer_out = <<>>
    /\ template_idx = 0
    /\ display = <<>>
    /\ ticker = <<>>
    /\ seed = <<>>
    /\ classification = NotCalled

\* The caller appends a holding to the portfolio it is building.
AddHolding(holding) ==
    /\ Len(portfolio) < MaxHoldings
    /\ portfolio' = Append(portfolio, holding)
    /\ analysis' = NotCalled
    /\ UNCHANGED <<portfolio_input, pasted, typed, clicked, summarizer_out,
                   template_idx, display>>
    /\ UNCHANGED classifierVars

\* A call analyze_portfolio(portfolio).
CallAnalyze ==
    /\ analysis = NotCalled
    /\ analysis' = analyze_portfolio(portfolio)
    /\ UNCHANGED <<portfolio_input, pasted, typed, clicked, portfolio, summarizer_out,
                   template_idx, display>>
    /\ UNCHANGED classifierVars

NextAnalyze ==
    \/ \E holding \in Holdings : AddHolding(holding)
    \/ CallAnalyze

SpecAnalyze == InitAnalyze /\ [][NextAnalyze]_vars

(***************************************************************************)
(* Claims about the application (Spec)                                     *)
(***************************************************************************)
\* This run is a click on a non-empty text: the handler parsed it.
Handled == clicked /\ portfolio_input # <<>>

\* The elements of a kind that the run displayed, in order.
Shown(kind) == SelectSeq(display, LAMBDA e : e.kind = kind)

\* The holding percentages sum to 100 within 0.01.
SumsToHundred(hs) == Abs(SumPercentages(hs) - 100 * Scale) <= Scale \div 100

RECURSIVE WeightedSum(_, _)
\* The sum over the holdings of (percentage / 100) times the given figure of
\* the holding's asset-class profile.
WeightedSum(hs, figure) ==
    IF hs = <<>> THEN 0
    ELSE (Head(hs).percentage \div 100)
             * ASSET_CLASSES[map_ticker_to_asset_class(Head(hs).ticker)][figure]
         + WeightedSum(Tail(hs), figure)

RECURSIVE TypeTotal(_, _)
\* The sum of the percentages of the holdings whose asset class has the type.
TypeTotal(hs, type) ==
    IF hs = <<>> THEN 0
    ELSE (IF ASSET_CLASSES[map_ticker_to_asset_class(Head(hs).ticker)].type = type
          THEN Head(hs).percentage ELSE 0)
         + TypeTotal(Tail(hs), type)

\* C1: when the parsed percentages sum to S with |S - 100| > 0.01, the click
\* is refused with an input error before any metric is computed:
\* analyze_portfolio is not called and neither an analysis nor a summary is
\* displayed; and analyze_portfolio itself, called with such a portfolio
\* (|S/100 - 1| > 0.0001), raises ValueError, not a later error.
C1_WeightSumGate ==
    Handled /\ ~SumsToHundred(portfolio) =>
        /\ analysis = NotCalled
        /\ Shown("subheader") = <<>>
        /\ Shown("markdown") = <<>>
        /\ display # <<>>
        /\ display[Len(display)].kind = "error"
        /\ analyze_portfolio(portfolio).outcome = "ValueError"

\* The sample portfolio with a line of 0.02 % after it sums to 100.02 and is
\* refused.
C1_Witness ==
    /\ Handled
    /\ pasted
    /\ typed = <<Chars("xyz  0.02")>>
    /\ SumPercentages(portfolio) = 100 * Scale + 200
    /\ analysis = NotCalled
    /\ display = <<Error(Chars(
           "Error: Your total portfolio percentage is 100.02%. It should add up to 100%."))>>

\* C2: for every portfolio that passes the weight-sum validation the analysis
\* does not raise; with zero portfolio risk it returns a partial result that
\* carries the three percentages and the risk level and omits return, risk
\* and Sharpe ratio.
C2_DegradeToPartial ==
    Handled /\ SumsToHundred(portfolio) =>
        /\ analysis.outcome = "returned"
        /\ {"equity_percentage", "fixed_income_percentage", "cash_percentage",
            "risk_level"} \subseteq DOMAIN analysis
        /\ WeightedSum(portfolio, "risk") = 0 =>
               {"expected_return", "risk", "sharpe_ratio"} \cap DOMAIN analysis = {}

\* The zero-risk portfolio passes the validation and the run shows the
\* exception, nothing else.
C2_Witness ==
    /\ Handled
    /\ typed = <<Chars("agg -25"), Chars("CASH 125")>>
    /\ SumsToHundred(portfolio)
    /\ analysis = [outcome |-> "ZeroDivisionError"]
    /\ display =
           <<Error(Chars("An error occurred during analysis: float division by zero"))>>

\* C4: for every portfolio whose percentages sum to 100 within 0.01,
\* analyze_portfolio returns equity, fixed-income and cash percentages equal
\* to the sums of the percentages of the holdings of each type, which add up
\* to the sum of all holding percentages.
C4_AllocationPercentages ==
    Handled /\ SumsToHundred(portfolio) =>
        /\ analysis.outcome = "returned"
        /\ analysis.equity_percentage = TypeTotal(portfolio, "Equity")
        /\ analysis.fixed_income_percentage = TypeTotal(portfolio, "Fixed Income")
        /\ analysis.cash_percentage = TypeTotal(portfolio, "Cash")
        /\ analysis.equity_percentage + analysis.fixed_income_percentage
               + analysis.cash_percentage = SumPercentages(portfolio)

\* C5: for every accepted portfolio analyze_portfolio returns the weighted
\* sums of the profile returns and risks and the Sharpe ratio
\* (expected_return - 0.01) / risk; the sample portfolio gives 0.065, 0.098
\* and 0.055 / 0.098.
C5_StaticModelMetrics ==
    Handled /\ SumsToHundred(portfolio) =>
        /\ analysis.outcome = "returned"
        /\ analysis.expected_return = WeightedSum(portfolio, "return")
        /\ analysis.risk = WeightedSum(portfolio, "risk")
        /\ analysis.sharpe_ratio = <<analysis.expected_return - Scale, analysis.risk>>
        /\ pasted /\ typed = <<>> =>
               /\ analysis.expected_return = 65000
               /\ analysis.risk = 98000
               /\ analysis.sharpe_ratio = <<55000, 98000>>

\* The seven required topic keywords, in lower case.
TopicKeywords ==
    <<"stocks", "bonds", "cash", "risk", "return", "sharpe ratio", "financial advisor">>

\* The text contains every topic keyword, in any letter case.
HasTopicKeywords(text) ==
    \A i \in DOMAIN TopicKeywords : Contains(Lower(text), Chars(TopicKeywords[i]))

\* The text displayed under 'AI-Generated Portfolio Summary'.
ShownSummary == Shown("markdown")[1].text

\* C6: whichever template the random choice selects, the fallback summary
\* contains all seven topic keywords in any letter case; so a generative
\* output that misses a keyword is not displayed, and what is displayed in
\* its place contains every keyword.
C6_FallbackKeywordCoverage ==
    Handled /\ analysis.outcome = "returned" =>
        /\ ~HasTopicKeywords(post_process_summary(summarizer_out)) =>
               /\ template_idx # 0
               /\ ShownSummary # post_process_summary(summarizer_out)
        /\ template_idx # 0 =>
               /\ ShownSummary = generate_fallback_summary(analysis, template_idx)
               /\ HasTopicKeywords(ShownSummary)

\* The second template, displayed for the sample portfolio.
C6_Witness ==
    /\ Handled
    /\ pasted
    /\ typed = <<>>
    /\ template_idx = 2
    /\ ShownSummary = Chars("Your investment portfolio has a moderate approach, with 50.0% in stocks for growth, 40.0% in bonds for stability, and 10.0% in cash for security. It aims for an annual return of 6.50%, with a risk level of 9.80%. The Sharpe ratio (0.56) suggests a good balance of return for the risk taken. Always keep in mind that investments can go up or down, and it's wise to seek professional financial advice.")
    /\ ~Contains(Lower(ShownSummary), Chars("financial advisor"))

\* C7: the post-processed generative summary is displayed, not replaced by a
\* fallback, if and only if it contains all seven topic keywords in any
\* letter case.
C7_GenerativeValidation ==
    Handled /\ analysis.outcome = "returned" =>
        ((ShownSummary = post_process_summary(summarizer_out))
             <=> HasTopicKeywords(post_process_summary(summarizer_out)))

\* A generative summary with all seven keywords was replaced by a template.
C7_Witness ==
    /\ Handled
    /\ analysis.outcome = "returned"
    /\ HasTopicKeywords(post_process_summary(summarizer_out))
    /\ Contains(summarizer_out, Chars("Sharpe ratio"))
    /\ template_idx = 1
    /\ ShownSummary = generate_fallback_summary(analysis, 1)

\* The lines of the text area, as the user entered them.
EnteredLines ==
    (IF pasted
     THEN <<Chars("SPY 30"), Chars("AGG 40"), Chars("EFA 20"), Chars("CASH 10")>>
     ELSE <<>>) \o typed

\* How each line reads as TICKER PERCENTAGE: whether it does, its first
\* token, and the percentage.
LineReading(line) ==
    CASE line = Chars("SPY 30") -> [parses |-> TRUE, ticker |-> Chars("SPY"), percentage |-> 30 * Scale]
      [] line = Chars("AGG 40") -> [parses |-> TRUE, ticker |-> Chars("AGG"), percentage |-> 40 * Scale]
      [] line = Chars("EFA 20") -> [parses |-> TRUE, ticker |-> Chars("EFA"), percentage |-> 20 * Scale]
      [] line = Chars("CASH 10") -> [parses |-> TRUE, ticker |-> Chars("CASH"), percentage |-> 10 * Scale]
      [] line = Chars("SPY 70") -> [parses |-> TRUE, ticker |-> Chars("SPY"), percentage |-> 70 * Scale]
      [] line = Chars("BND 30") -> [parses |-> TRUE, ticker |-> Chars("BND"), percentage |-> 30 * Scale]
      [] line = Chars("VOO 30") -> [parses |-> TRUE, ticker |-> Chars("VOO"), percentage |-> 30 * Scale]
      [] line = Chars("bnd 70") -> [parses |-> TRUE, ticker |-> Chars("bnd"), percentage |-> 70 * Scale]
      [] line = Chars("agg -25") -> [parses |-> TRUE, ticker |-> Chars("agg"), percentage |-> -25 * Scale]
      [] line = Chars("CASH 125") -> [parses |-> TRUE, ticker |-> Chars("CASH"), percentage |-> 125 * Scale]
      [] line = Chars("xyz  0.02") -> [parses |-> TRUE, ticker |-> Chars("xyz"), percentage |-> (2 * Scale) \div 100]
      [] line = Chars("SPY") -> [parses |-> FALSE, ticker |-> Chars("SPY"), percentage |-> 0]
      [] line = Chars("IJH 3%") -> [parses |-> FALSE, ticker |-> Chars("IJH"), percentage |-> 0]

RECURSIVE ExpectedHoldings(_)
\* One holding for each line that reads as TICKER PERCENTAGE, in order.
ExpectedHoldings(lines) ==
    IF lines = <<>> THEN <<>>
    ELSE (IF LineReading(Head(lines)).parses
          THEN <<[ticker |-> LineReading(Head(lines)).ticker,
                  percentage |-> LineReading(Head(lines)).percentage]>>
          ELSE <<>>)
         \o ExpectedHoldings(Tail(lines))

\* C8: the parse returns, in input order, exactly one holding for each line
\* that parses as TICKER PERCENTAGE, whatever lines fail around it; and every
\* line that fails to parse is reported with an error that names it.
C8_ParseRecovery ==
    Handled =>
        /\ portfolio = ExpectedHoldings(EnteredLines)
        /\ \A i \in DOMAIN EnteredLines :
               ~LineReading(EnteredLines[i]).parses =>
                   \E j \in DOMAIN display :
                       /\ display[j].kind = "error"
                       /\ Contains(display[j].text, LineReading(EnteredLines[i]).ticker)

\* A line without a percentage is dropped, the holding before it is kept, and
\* the only error shown is the refusal of the total.
C8_Witness ==
    /\ Handled
    /\ typed = <<Chars("SPY 70"), Chars("SPY")>>
    /\ portfolio = <<[ticker |-> Chars("SPY"), percentage |-> 70 * Scale]>>
    /\ display = <<Error(Chars(
           "Error: Your total portfolio percentage is 70.00%. It should add up to 100%."))>>

(***************************************************************************)
(* Claims about analyze_portfolio (SpecAnalyze)                            *)
(***************************************************************************)
\* C3: in every result analyze_portfolio returns, the risk level is
\* "aggressive" exactly when the equity percentage is above 70,
\* "conservative" exactly when it is below 30 and "moderate" otherwise, so
\* that exactly 70 and exactly 30 are both "moderate".
C3_RiskTiers ==
    analysis.outcome = "returned" =>
        /\ analysis.equity_percentage = TypeTotal(portfolio, "Equity")
        /\ analysis.risk_level \in {"aggressive", "conservative", "moderate"}
        /\ analysis.risk_level = "aggressive" <=> analysis.equity_percentage > 70 * Scale
        /\ analysis.risk_level = "conservative" <=> analysis.equity_percentage < 30 * Scale
        /\ analysis.equity_percentage \in {70 * Scale, 30 * Scale} =>
               analysis.risk_level = "moderate"

\* Exactly 70 % equity, from three equity holdings with a repeated ticker.
C3_Witness ==
    /\ portfolio = <<Holding("SPY", 30), Holding("EFA", 20), Holding("EFA", 20),
                     Holding("bnd", 30)>>
    /\ analysis.outcome = "returned"
    /\ analysis.equity_percentage = 70 * Scale
    /\ analysis.risk_level = "moderate"

\* C10: for every portfolio whose holdings all have a percentage in [0, 100]
\* and whose weights pass the sum check, the accumulated risk is strictly
\* positive and analyze_portfolio computes the Sharpe ratio without a
\* division by zero.
C10_NoDivisionByZero ==
    /\ analysis # NotCalled
    /\ \A i \in DOMAIN portfolio :
           portfolio[i].percentage >= 0 /\ portfolio[i].percentage <= 100 * Scale
    /\ SumsToHundred(portfolio)
    => /\ analysis.outcome = "returned"
       /\ analysis.risk > 0
       /\ analysis.sharpe_ratio[2] = analysis.risk

\* A portfolio that ends with an empty position.
C10_Witness ==
    /\ portfolio = <<Holding("XYZ", 50), Holding("XYZ", 50), Holding("XYZ", 0)>>
    /\ analysis.outcome = "returned"
    /\ analysis.risk = 15 * Scale
    /\ analysis.sharpe_ratio = <<9 * Scale, 15 * Scale>>

(***************************************************************************)
(* Claims about the classifier (SpecClassify)                              *)
(***************************************************************************)
\* The table of known tickers, class by class.
KnownTickers ==
    [US_LARGE_CAP |-> {"SPY", "IVV", "VOO"},
     US_MID_CAP |-> {"IJH", "VO"},
     US_SMALL_CAP |-> {"IJR", "VB"},
     INTERNATIONAL_DEVELOPED |-> {"EFA", "VEA"},
     EMERGING_MARKETS |-> {"EEM", "VWO"},
     US_AGGREGATE_BOND |-> {"AGG", "BND"},
     HIGH_YIELD_BOND |-> {"HYG", "JNK"},
     INTERNATIONAL_BOND |-> {"BNDX", "IAGG"},
     CASH |-> {"CASH"}]

\* The class the table gives a ticker in its upper-case spelling, the default
\* for one that is not in it.
TabledClass(t) ==
    IF \E c \in DOMAIN KnownTickers : \E k \in KnownTickers[c] : Chars(k) = t
    THEN CHOOSE c \in DOMAIN KnownTickers : \E k \in KnownTickers[c] : Chars(k) = t
    ELSE "US_LARGE_CAP"

\* C9: for every ticker, in any letter case, map_ticker_to_asset_class
\* returns a key of ASSET_CLASSES: the tabled class of a known ticker, the
\* default US_LARGE_CAP of any other; so spellings that differ only in case
\* get the same class.
C9_ClassifierTotal ==
    classification # NotCalled =>
        /\ classification.outcome = "returned"
        /\ Upper(classification.ticker) = seed
        /\ classification.asset_class \in DOMAIN ASSET_CLASSES
        /\ classification.asset_class = TabledClass(seed)

\* A mixed-case spelling of AGG is classified as AGG is.
C9_Witness ==
    /\ seed = Chars("AGG")
    /\ classification = [outcome |-> "returned", ticker |-> <<"a", "G", "g">>,
                         asset_class |-> "US_AGGREGATE_BOND"]

====
